---- MODULE Spec2Model ----
(***************************************************************************)
(* Model of the web UI store of Multi_inst (webui/src/store/useAppStore.ts *)
(* and webui/src/lib/api.ts): session lifecycle, the push stream, the      *)
(* device map and the throughput counters.                                 *)
(*                                                                         *)
(* One step of the model is one JavaScript task: a user invocation of a    *)
(* store operation up to its first await on the network, the continuation  *)
(* of an operation when its control-API call settles, or one WebSocket     *)
(* event handler.  A continuation that JavaScript runs as a microtask of   *)
(* the same task (the start() that an option setter issues right after its *)
(* stop() returned) is a step of its own that nothing can overtake: while  *)
(* micro is set no other step is enabled.                                  *)
(***************************************************************************)
EXTENDS Integers, Sequences, FiniteSets, Bags, TLC

(* ------------------------------ bounds -------------------------------- *)
MaxSessions == 2      \* session ids the control API hands out
MaxCalls == 2         \* control-API calls outstanding at the same time
MaxFrames == 3        \* snapshot events counted inside one window
MaxTicks == 2         \* clock advances

(* ----------------------------- constants ------------------------------ *)
Window == 1000        \* ms, length of the throughput window
T0 == 5000            \* Date.now() at construction (any positive value)

NoSession == 0        \* sessionId: null, ws: null
NoError == "null"     \* error: null
StartError == "Error: start"   \* String(err) of a rejected startSession

SessionIds == 1..MaxSessions
Keys == {"A", "B"}
Reasons == {"no_ports"}
TickSteps == {400, 1000}

(* DeviceSnapshot payloads (api.ts), copied verbatim into the store *)
(* `updated` is the timestamp the agent put into the payload              *)
Data ==
  { [port |-> "p1", ok |-> "null", state |-> "testing", updated |-> 1],
    [port |-> "p1", ok |-> "true", state |-> "settled", updated |-> 2] }

(* event.data of an event that carries no data: undefined *)
NoData == [port |-> "", ok |-> "null", state |-> "", updated |-> 0]

(* the event slot of a step that handled no event *)
NoEvent == [type |-> "none", uid |-> "", data |-> NoData, reason |-> ""]

(* the options a session is started with (AppState fields) *)
Modes == {"normal", "pro"}
Profiles == {"usb_stand", "field_strict"}
Opts == [mode : Modes, auto : BOOLEAN, profile : Profiles,
         simulate : BOOLEAN, includeSimulator : BOOLEAN]
InitOpts == [mode |-> "normal", auto |-> TRUE, profile |-> "usb_stand",
             simulate |-> FALSE, includeSimulator |-> FALSE]
(* a call or a stream slot that carries no options *)
NoOpts == [mode |-> "", auto |-> FALSE, profile |-> "",
           simulate |-> FALSE, includeSimulator |-> FALSE]

VARIABLES
  sessionId,     \* AppState.sessionId (NoSession = null)
  devices,       \* AppState.devices: insertion-ordered map, a sequence of [key, data]
  loading,       \* AppState.loading
  error,         \* AppState.error
  opts,          \* AppState.mode, auto, profile, simulate, includeSimulator
  fps, frames, lastFrameTs,   \* AppState throughput counters
  ws,            \* module-level connection handle: a stream id or NoSession
  streams,       \* per session id: the state of the WebSocket opened for it
  started,       \* the options of the latest startSession call that succeeded (history)
  calls,         \* bag of control-API calls awaiting their response
  nextId,        \* number of session ids handed out by the control API
  now,           \* Date.now()
  ticks,         \* number of clock advances so far
  micro,         \* pending microtask continuation
  folded,        \* the events of the stream opened last, folded over the empty map (history)
  lastPub,       \* the times of the last two assignments of a rate to fps, 0 for none (history)
  filter,        \* the filter of the device list
  search,        \* the search text, as the sequence of its characters
  sort,          \* the sort key of the device list
  view,          \* the array useFilteredDevices returned to the Dashboard last, empty before
  history,       \* device.history of the device a card or the device page shows
  charts,        \* the arrays handed to the charts by the component rendered last
  last           \* the step taken last (history)

store == <<sessionId, devices, loading, error, opts, fps, frames, lastFrameTs>>
(* what the projection reads besides the devices *)
criteria == <<filter, search, sort>>
vars == <<sessionId, devices, loading, error, opts, fps, frames, lastFrameTs,
          ws, streams, started, folded, lastPub, calls, nextId, now, ticks, micro,
          filter, search, sort, view, history, charts, last>>

(* ------------------------------ helpers ------------------------------- *)
Call(kind, sid, o, cont, uid) ==
  [kind |-> kind, sid |-> sid, opts |-> o, cont |-> cont, uid |-> uid]

Pending(kind) == {c \in BagToSet(calls) : c.kind = kind}
Outstanding(kind) ==
  LET S == Pending(kind)
      RECURSIVE Sum(_)
      Sum(T) == IF T = {} THEN 0
                ELSE LET c == CHOOSE x \in T : TRUE
                     IN CopiesIn(c, calls) + Sum(T \ {c})
  IN Sum(S)

Issue(c) == calls (+) SetToBag({c})
Settle(c) == calls (-) SetToBag({c})

Step(op, sid) == [op |-> op, sid |-> sid, ev |-> NoEvent, again |-> FALSE]

(* devices as an insertion-ordered map *)
HasKey(devs, k) == \E i \in 1..Len(devs) : devs[i].key = k
Lookup(devs, k) == devs[CHOOSE i \in 1..Len(devs) : devs[i].key = k].data
KeysOf(devs) == {devs[i].key : i \in 1..Len(devs)}

(* an upsert that keeps the first data stored under a key it already has *)
Put_KeepFirst(devs, k, d) ==
  IF HasKey(devs, k)
    THEN devs
    ELSE Append(devs, [key |-> k, data |-> d])

(* an upsert that adds a record whether or not the key has one *)
Put_Append(devs, k, d) == Append(devs, [key |-> k, data |-> d])

(* { ...devices, [uid]: data } *)
Put(devs, k, d) ==
  IF HasKey(devs, k)
    THEN [i \in 1..Len(devs) |->
            IF devs[i].key = k THEN [key |-> k, data |-> d] ELSE devs[i]]
    ELSE Append(devs, [key |-> k, data |-> d])

(* a removal that also drops the records inserted after the removed one *)
Delete_Truncate(devs, k) ==
  IF HasKey(devs, k)
    THEN SubSeq(devs, 1, (CHOOSE i \in 1..Len(devs) : devs[i].key = k) - 1)
    ELSE devs

(* delete nextDevices[uid] *)
Delete(devs, k) == SelectSeq(devs, LAMBDA e : e.key # k)

(* a rate that is truncated, not rounded *)
Round_Floor(n, e) == n \div e

(* Math.round of the positive quotient n / e *)
Round(n, e) == (2 * n + e) \div (2 * e)

(* ws.close() on a stream: only an open stream starts closing *)
CloseStream(s) ==
  IF s # NoSession /\ streams[s] = "open"
    THEN [streams EXCEPT ![s] = "clientClosed"]
    ELSE streams

(* `device.history ?? { cycle_us: [], loop_hz: [], vbat: [], amps: [] }` *)
NoHistory == [cycle_us |-> <<>>, loop_hz |-> <<>>, vbat |-> <<>>, amps |-> <<>>]

(* ------------------------------- Init --------------------------------- *)
Init ==
  /\ sessionId = NoSession
  /\ devices = <<>>
  /\ loading = FALSE
  /\ error = NoError
  /\ opts = InitOpts
  /\ fps = 0 /\ frames = 0 /\ lastFrameTs = 0
  /\ ws = NoSession
  /\ streams = [s \in SessionIds |-> "none"]
  /\ started = NoOpts
  /\ calls = EmptyBag
  /\ nextId = 0
  /\ now = T0
  /\ ticks = 0
  /\ micro = "none"
  /\ folded = {}
  /\ lastPub = [at |-> 0, before |-> 0]
  /\ filter = "all"
  /\ search = <<>>
  /\ sort = "status"
  /\ view = <<>>
  /\ history = NoHistory
  /\ charts = <<>>
  /\ last = Step("init", NoSession)

(* ------------------------- SessionController -------------------------- *)
(* closeWebSocket(): the streams after the held connection was closed;  *)
(* the caller drops the handle                                          *)
closeWebSocket == CloseStream(ws)

(* start() without the loading guard of line 80 *)
StartBody_Unguarded ==
  /\ loading' = TRUE
  /\ error' = NoError
  /\ devices' = <<>>
  /\ fps' = 0 /\ frames' = 0 /\ lastFrameTs' = 0
  /\ calls' = Issue(Call("start", sessionId, opts, "none", ""))

(* start() that leaves the error of an earlier failure in place *)
StartBody_KeepsError ==
  IF loading
    THEN UNCHANGED <<loading, error, devices, fps, frames, lastFrameTs, calls>>
    ELSE /\ loading' = TRUE
         /\ error' = error
         /\ devices' = <<>>
         /\ fps' = 0 /\ frames' = 0 /\ lastFrameTs' = 0
         /\ calls' = Issue(Call("start", sessionId, opts, "none", ""))

(* start() that forgets to clear the device set and the counters *)
StartBody_NoReset ==
  IF loading
    THEN UNCHANGED <<loading, error, devices, fps, frames, lastFrameTs, calls>>
    ELSE /\ loading' = TRUE
         /\ error' = NoError
         /\ UNCHANGED <<devices, fps, frames, lastFrameTs>>
         /\ calls' = Issue(Call("start", sessionId, opts, "none", ""))

(* start(), lines 78-92: the guard, the reset and the startSession call.  *)
(* `state` (line 79) is the store as it is at the invocation: the call    *)
(* record keeps its sessionId and the options sent.  Every caller passes  *)
(* no options argument, so the call carries the stored options.           *)
StartBody ==
  IF loading
    THEN UNCHANGED <<loading, error, devices, fps, frames, lastFrameTs, calls>>
    ELSE /\ loading' = TRUE
         /\ error' = NoError
         /\ devices' = <<>>
         /\ fps' = 0 /\ frames' = 0 /\ lastFrameTs' = 0
         /\ calls' = Issue(Call("start", sessionId, opts, "none", ""))

(* the user invokes start() *)
start ==
  /\ micro = "none"
  /\ loading \/ BagCardinality(calls) < MaxCalls
  /\ StartBody
  /\ last' = Step(IF loading THEN "startIgnored" ELSE "start", sessionId)
  /\ UNCHANGED <<criteria, view, history, charts>>
  /\ UNCHANGED <<sessionId, opts, ws, streams, started, folded, lastPub, nextId, now, ticks, micro>>

(* a success path that opens the new stream without closing the held one *)
StartResolve_NoClose(c) ==
  /\ micro = "none"
  /\ c \in Pending("start")
  /\ nextId < MaxSessions
  /\ LET sid == nextId + 1 IN
       /\ nextId' = sid
       /\ sessionId' = sid
       /\ devices' = <<>>
       /\ streams' = [streams EXCEPT ![sid] = "open"]
       /\ started' = c.opts
       /\ folded' = {}
       /\ ws' = sid
       /\ last' = Step("startResolved", sid)
       /\ UNCHANGED <<criteria, view, history, charts>>
  /\ loading' = FALSE
  /\ calls' = Settle(c)
  /\ UNCHANGED <<error, opts, fps, frames, lastFrameTs, now, ticks, micro, lastPub>>

(* startSession resolved with a fresh id: lines 93-108 and 112 *)
StartResolve(c) ==
  /\ micro = "none"
  /\ c \in Pending("start")
  /\ nextId < MaxSessions
  /\ LET sid == nextId + 1 IN
       /\ nextId' = sid
       /\ sessionId' = sid
       /\ devices' = <<>>
       /\ streams' = [closeWebSocket EXCEPT ![sid] = "open"]
       /\ started' = c.opts
       /\ folded' = {}
       /\ ws' = sid
       /\ last' = Step("startResolved", sid)
       /\ UNCHANGED <<criteria, view, history, charts>>
  /\ loading' = FALSE
  /\ calls' = Settle(c)
  /\ UNCHANGED <<error, opts, fps, frames, lastFrameTs, now, ticks, micro, lastPub>>

(* a catch block that also drops the session *)
StartReject_ClearsSession(c) ==
  /\ micro = "none"
  /\ c \in Pending("start")
  /\ error' = StartError
  /\ loading' = FALSE
  /\ sessionId' = NoSession
  /\ calls' = Settle(c)
  /\ last' = Step("startRejected", c.sid)
  /\ UNCHANGED <<criteria, view, history, charts>>
  /\ UNCHANGED <<devices, opts, fps, frames, lastFrameTs, ws, streams,
                 started, folded, lastPub, nextId, now, ticks, micro>>

(* a failure path without the finally block of line 112 *)
StartReject_KeepsLoading(c) ==
  /\ micro = "none"
  /\ c \in Pending("start")
  /\ error' = StartError
  /\ loading' = loading
  /\ calls' = Settle(c)
  /\ last' = Step("startRejected", c.sid)
  /\ UNCHANGED <<criteria, view, history, charts>>
  /\ UNCHANGED <<sessionId, devices, opts, fps, frames, lastFrameTs, ws, streams,
                 started, folded, lastPub, nextId, now, ticks, micro>>

(* startSession rejected: lines 109-113 *)
StartReject(c) ==
  /\ micro = "none"
  /\ c \in Pending("start")
  /\ error' = StartError
  /\ loading' = FALSE
  /\ calls' = Settle(c)
  /\ last' = Step("startRejected", c.sid)
  /\ UNCHANGED <<criteria, view, history, charts>>
  /\ UNCHANGED <<sessionId, devices, opts, fps, frames, lastFrameTs, ws, streams,
                 started, folded, lastPub, nextId, now, ticks, micro>>

(* stop() without the guard of line 117 *)
StopBody_Unguarded(cont) ==
  calls' = Issue(Call("stop", sessionId, NoOpts, cont, ""))

(* stop(), lines 116-118: the guard and the stopSession call *)
StopBody(cont) ==
  IF sessionId = NoSession
    THEN UNCHANGED calls
    ELSE calls' = Issue(Call("stop", sessionId, NoOpts, cont, ""))

(* a stop() that cancels the start in flight when no session is active *)
stop_CancelsStart ==
  /\ micro = "none"
  /\ sessionId = NoSession \/ BagCardinality(calls) < MaxCalls
  /\ IF sessionId = NoSession
       THEN /\ calls' = [c \in {x \in BagToSet(calls) : x.kind # "start"} |-> calls[c]]
            /\ loading' = FALSE
       ELSE /\ StopBody("none")
            /\ UNCHANGED loading
  /\ last' = Step(IF sessionId = NoSession THEN "stopIgnored" ELSE "stop", sessionId)
  /\ UNCHANGED <<criteria, view, history, charts>>
  /\ UNCHANGED <<sessionId, devices, error, opts, fps, frames, lastFrameTs,
                 ws, streams, started, folded, lastPub, nextId, now, ticks, micro>>

(* the user invokes stop() *)
stop ==
  /\ micro = "none"
  /\ sessionId = NoSession \/ BagCardinality(calls) < MaxCalls
  /\ StopBody("none")
  /\ last' = Step(IF sessionId = NoSession THEN "stopIgnored" ELSE "stop", sessionId)
  /\ UNCHANGED <<criteria, view, history, charts>>
  /\ UNCHANGED <<store, ws, streams, started, folded, lastPub, nextId, now, ticks, micro>>

(* stop() that forgets the published rate when it clears the counters *)
StopResolve_KeepsFps(c) ==
  /\ micro = "none"
  /\ c \in Pending("stop")
  /\ streams' = closeWebSocket
  /\ ws' = NoSession
  /\ UNCHANGED <<started, folded, lastPub>>
  /\ sessionId' = NoSession
  /\ devices' = <<>>
  /\ fps' = fps /\ frames' = 0 /\ lastFrameTs' = 0
  /\ calls' = Settle(c)
  /\ micro' = c.cont
  /\ last' = Step("stopResolved", c.sid)
  /\ UNCHANGED <<criteria, view, history, charts>>
  /\ UNCHANGED <<loading, error, opts, nextId, now, ticks>>

(* stopSession resolved: lines 119-120; a setter then goes on to start() *)
StopResolve(c) ==
  /\ micro = "none"
  /\ c \in Pending("stop")
  /\ streams' = closeWebSocket
  /\ ws' = NoSession
  /\ UNCHANGED <<started, folded, lastPub>>
  /\ sessionId' = NoSession
  /\ devices' = <<>>
  /\ fps' = 0 /\ frames' = 0 /\ lastFrameTs' = 0
  /\ calls' = Settle(c)
  /\ micro' = c.cont
  /\ last' = Step("stopResolved", c.sid)
  /\ UNCHANGED <<criteria, view, history, charts>>
  /\ UNCHANGED <<loading, error, opts, nextId, now, ticks>>

(* stopSession rejected: stop() has no catch, its promise rejects and the *)
(* setter awaiting it rejects with it                                     *)
StopReject(c) ==
  /\ micro = "none"
  /\ c \in Pending("stop")
  /\ calls' = Settle(c)
  /\ last' = Step("stopRejected", c.sid)
  /\ UNCHANGED <<criteria, view, history, charts>>
  /\ UNCHANGED <<store, ws, streams, started, folded, lastPub, nextId, now, ticks, micro>>

(* an option setter that does not await its stop() before its start() *)
Reconfigure_NoAwait(newOpts, op) ==
  /\ micro = "none"
  /\ sessionId = NoSession \/ BagCardinality(calls) < MaxCalls
  /\ opts' = newOpts
  /\ IF sessionId = NoSession
       THEN UNCHANGED <<calls, micro>>
       ELSE StopBody("none") /\ micro' = "start"
  /\ last' = Step(op, sessionId)
  /\ UNCHANGED <<criteria, view, history, charts>>
  /\ UNCHANGED <<sessionId, devices, loading, error, fps, frames, lastFrameTs,
                 ws, streams, started, folded, lastPub, nextId, now, ticks>>

(* an option setter, lines 126-160: store the option, then stop and start *)
(* again when a session is active                                         *)
Reconfigure(newOpts, op) ==
  /\ micro = "none"
  /\ sessionId = NoSession \/ BagCardinality(calls) < MaxCalls
  /\ opts' = newOpts
  /\ IF sessionId = NoSession
       THEN UNCHANGED calls
       ELSE StopBody("start")
  /\ last' = Step(op, sessionId)
  /\ UNCHANGED <<criteria, view, history, charts>>
  /\ UNCHANGED <<sessionId, devices, loading, error, fps, frames, lastFrameTs,
                 ws, streams, started, folded, lastPub, nextId, now, ticks, micro>>

setMode(m) == Reconfigure([opts EXCEPT !.mode = m], "setMode")
setAuto(a) == Reconfigure([opts EXCEPT !.auto = a], "setAuto")
setProfile(p) == Reconfigure([opts EXCEPT !.profile = p], "setProfile")
setSimulate(b) == Reconfigure([opts EXCEPT !.simulate = b], "setSimulate")
setIncludeSimulator(b) ==
  Reconfigure([opts EXCEPT !.includeSimulator = b], "setIncludeSimulator")

(* the start() of a setter, run right after its stop() returned *)
SetterStart ==
  /\ micro = "start"
  /\ StartBody
  /\ micro' = "none"
  /\ last' = Step(IF loading THEN "setterStartIgnored" ELSE "setterStart", sessionId)
  /\ UNCHANGED <<criteria, view, history, charts>>
  /\ UNCHANGED <<sessionId, opts, ws, streams, started, folded, lastPub, nextId, now, ticks>>

(* retest(uid), lines 169-173 *)
retest(uid) ==
  /\ micro = "none"
  /\ sessionId = NoSession \/ BagCardinality(calls) < MaxCalls
  /\ IF sessionId = NoSession
       THEN UNCHANGED calls
       ELSE calls' = Issue(Call("retest", sessionId, NoOpts, "none", uid))
  /\ last' = Step(IF sessionId = NoSession THEN "retestIgnored" ELSE "retest", sessionId)
  /\ UNCHANGED <<criteria, view, history, charts>>
  /\ UNCHANGED <<store, ws, streams, started, folded, lastPub, nextId, now, ticks, micro>>

(* a retest that records the failure of its call in error *)
RetestSettle_SetsError(c, ok) ==
  /\ micro = "none"
  /\ c \in Pending("retest")
  /\ calls' = Settle(c)
  /\ error' = IF ok THEN error ELSE "Error: retest"
  /\ last' = Step(IF ok THEN "retestResolved" ELSE "retestRejected", c.sid)
  /\ UNCHANGED <<criteria, view, history, charts>>
  /\ UNCHANGED <<sessionId, devices, loading, opts, fps, frames, lastFrameTs,
                 ws, streams, started, folded, lastPub, nextId, now, ticks, micro>>

(* retestDevice settled either way: nothing follows the await, and a      *)
(* rejection is not caught                                                *)
RetestSettle(c, ok) ==
  /\ micro = "none"
  /\ c \in Pending("retest")
  /\ calls' = Settle(c)
  /\ last' = Step(IF ok THEN "retestResolved" ELSE "retestRejected", c.sid)
  /\ UNCHANGED <<criteria, view, history, charts>>
  /\ UNCHANGED <<store, ws, streams, started, folded, lastPub, nextId, now, ticks, micro>>

(* --------------------------- StreamConsumer --------------------------- *)
EventsOn(K, D) ==
  [type : {"snapshot"}, uid : K, data : D, reason : {""}]
    \cup [type : {"removed"}, uid : K, data : {NoData}, reason : {""}]
    \cup [type : {"probe_failed"}, uid : {""}, data : {NoData}, reason : Reasons]
    \cup [type : {"other"}, uid : {""}, data : {NoData}, reason : {""}]

Events == EventsOn(Keys, Data)

(* the events and keys the session-control specification draws from *)
CtlKeys == {"A"}
CtlAuto == {InitOpts.auto}
CtlProfiles == {InitOpts.profile}
CtlSimulate == {InitOpts.simulate}
CtlData == {CHOOSE d \in Data : d.state = "testing"}
CtlEvents == {e \in EventsOn(CtlKeys, CtlData) : e.type = "snapshot"}

(* what a field that the parsed message lacks reads as *)
Undefined == "undefined"

(* messages that parse as an object with a recognized type but lack a     *)
(* field the handler reads: event.uid, event.data or event.reason is      *)
(* undefined, and undefined used as a property name is "undefined"        *)
MalformedEvents ==
  [type : {"snapshot"}, uid : {Undefined}, data : CtlData, reason : {""}]
    \cup [type : {"snapshot"}, uid : CtlKeys, data : {NoData}, reason : {""}]
    \cup [type : {"probe_failed"}, uid : {""}, data : {NoData}, reason : {Undefined}]

(* a removed branch that counts the event as a frame *)
handleRemoved_Counted(event) ==
  /\ devices' = Delete(devices, event.uid)
  /\ frames' = frames + 1
  /\ UNCHANGED <<error, fps, lastFrameTs>>

(* the removed branch of handleEvent, lines 189-192 *)
handleRemoved(event) ==
  /\ devices' = Delete(devices, event.uid)
  /\ UNCHANGED <<error, fps, frames, lastFrameTs>>

(* a handler without the fallback of line 180: the window of the first  *)
(* snapshot after a reset starts at time 0                                *)
WindowStart_NoFallback == lastFrameTs

(* lastFrameTs || Date.now(), line 180 *)
WindowStart == IF lastFrameTs # 0 THEN lastFrameTs ELSE now

(* a handler whose probe_failed branch also empties the device set *)
handleEvent_ProbeClears(event) ==
  IF event.type = "snapshot" THEN
    LET newFrames == frames + 1
        lastTs == WindowStart
    IN /\ devices' = Put(devices, event.uid, event.data)
       /\ IF now - lastTs >= Window
            THEN /\ fps' = Round(newFrames * 1000, now - lastTs)
                 /\ frames' = 0
                 /\ lastFrameTs' = now
            ELSE /\ fps' = fps
                 /\ frames' = newFrames
                 /\ lastFrameTs' = lastTs
       /\ UNCHANGED error
  ELSE IF event.type = "removed" THEN
    handleRemoved(event)
  ELSE IF event.type = "probe_failed" THEN
    /\ error' = event.reason
    /\ devices' = <<>>
    /\ UNCHANGED <<fps, frames, lastFrameTs>>
  ELSE UNCHANGED <<devices, error, fps, frames, lastFrameTs>>

(* handleEvent(event), lines 174-196 *)
handleEvent(event) ==
  IF event.type = "snapshot" THEN
    LET newFrames == frames + 1
        lastTs == WindowStart
    IN /\ devices' = Put(devices, event.uid, event.data)
       /\ IF now - lastTs >= Window
            THEN /\ fps' = Round(newFrames * 1000, now - lastTs)
                 /\ frames' = 0
                 /\ lastFrameTs' = now
            ELSE /\ fps' = fps
                 /\ frames' = newFrames
                 /\ lastFrameTs' = lastTs
       /\ UNCHANGED error
  ELSE IF event.type = "removed" THEN
    handleRemoved(event)
  ELSE IF event.type = "probe_failed" THEN
    /\ error' = event.reason
    /\ UNCHANGED <<devices, fps, frames, lastFrameTs>>
  ELSE UNCHANGED <<devices, error, fps, frames, lastFrameTs>>

(* one step of the fold of section 4.3 over an unordered map, a set of    *)
(* [key, data] pairs: snapshot = put, removed = delete, others = identity *)
FoldStep(m, event) ==
  IF event.type = "snapshot"
    THEN {e \in m : e.key # event.uid} \cup {[key |-> event.uid, data |-> event.data]}
  ELSE IF event.type = "removed"
    THEN {e \in m : e.key # event.uid}
  ELSE m

(* the device map without its order *)
AsMap(devs) == {devs[i] : i \in 1..Len(devs)}

(* a stream that still delivers after the client closed it *)
OnMessage_AfterClose(s, event) ==
  /\ micro = "none"
  /\ streams[s] \in {"open", "clientClosed"}
  /\ event.type = "snapshot" =>
       frames < MaxFrames \/ now - lastFrameTs >= Window
  /\ handleEvent(event)
  /\ folded' = FoldStep(folded, event)
  /\ lastPub' = IF event.type = "snapshot" /\ frames' = 0
                  THEN [at |-> now, before |-> lastPub.at]
                  ELSE lastPub
  /\ last' = [Step(event.type, s) EXCEPT !.ev = event,
                                         !.again = (last.ev = event /\ last.sid = s)]
  /\ UNCHANGED <<criteria, view, history, charts>>
  /\ UNCHANGED <<sessionId, loading, opts, ws, streams, started, calls, nextId, now, ticks, micro>>

(* ws.onmessage of the stream opened for session s, lines 96-103 *)
OnMessage(s, event) ==
  /\ micro = "none"
  /\ streams[s] = "open"
  /\ event.type = "snapshot" =>
       frames < MaxFrames \/ now - lastFrameTs >= Window
  /\ handleEvent(event)
  /\ folded' = FoldStep(folded, event)
  /\ lastPub' = IF event.type = "snapshot" /\ frames' = 0
                  THEN [at |-> now, before |-> lastPub.at]
                  ELSE lastPub
  /\ last' = [Step(event.type, s) EXCEPT !.ev = event,
                                         !.again = (last.ev = event /\ last.sid = s)]
  /\ UNCHANGED <<criteria, view, history, charts>>
  /\ UNCHANGED <<sessionId, loading, opts, ws, streams, started, calls, nextId, now, ticks, micro>>

(* a message that is not JSON: JSON.parse throws, the catch logs it *)
OnBadMessage(s) ==
  /\ micro = "none"
  /\ streams[s] = "open"
  /\ last' = Step("malformed", s)
  /\ UNCHANGED <<criteria, view, history, charts>>
  /\ UNCHANGED <<store, ws, streams, started, folded, lastPub, calls, nextId, now, ticks, micro>>

(* ws.onclose without the test that the closed stream is the current one *)
OnClose_Unguarded(s) ==
  /\ micro = "none"
  /\ streams[s] \in {"open", "clientClosed"}
  /\ streams' = [streams EXCEPT ![s] = "done"]
  /\ UNCHANGED <<started, folded, lastPub>>
  /\ sessionId' = NoSession
  /\ last' = Step("onclose", s)
  /\ UNCHANGED <<criteria, view, history, charts>>
  /\ UNCHANGED <<devices, loading, error, opts, fps, frames, lastFrameTs,
                 ws, calls, nextId, now, ticks, micro>>

(* ws.onclose that opens the stream again when the current one ended *)
OnClose_Reconnects(s) ==
  /\ micro = "none"
  /\ streams[s] \in {"open", "clientClosed"}
  /\ streams' = [streams EXCEPT ![s] = IF sessionId = s THEN "open" ELSE "done"]
  /\ UNCHANGED <<started, folded, lastPub>>
  /\ sessionId' = sessionId
  /\ last' = Step("onclose", s)
  /\ UNCHANGED <<criteria, view, history, charts>>
  /\ UNCHANGED <<devices, loading, error, opts, fps, frames, lastFrameTs,
                 ws, calls, nextId, now, ticks, micro>>

(* an onclose handler that leaves sessionId as it is *)
OnClose_KeepsSession(s) ==
  /\ micro = "none"
  /\ streams[s] \in {"open", "clientClosed"}
  /\ streams' = [streams EXCEPT ![s] = "done"]
  /\ UNCHANGED <<started, folded, lastPub>>
  /\ sessionId' = sessionId
  /\ last' = Step("onclose", s)
  /\ UNCHANGED <<criteria, view, history, charts>>
  /\ UNCHANGED <<devices, loading, error, opts, fps, frames, lastFrameTs,
                 ws, calls, nextId, now, ticks, micro>>

(* ws.onclose of the stream opened for session s, lines 104-108: the      *)
(* connection ended, closed by the peer or by an earlier ws.close()       *)
OnClose(s) ==
  /\ micro = "none"
  /\ streams[s] \in {"open", "clientClosed"}
  /\ streams' = [streams EXCEPT ![s] = "done"]
  /\ UNCHANGED <<started, folded, lastPub>>
  /\ sessionId' = IF sessionId = s THEN NoSession ELSE sessionId
  /\ last' = Step("onclose", s)
  /\ UNCHANGED <<criteria, view, history, charts>>
  /\ UNCHANGED <<devices, loading, error, opts, fps, frames, lastFrameTs,
                 ws, calls, nextId, now, ticks, micro>>

(* the clock advances *)
Tick(d) ==
  /\ micro = "none"
  /\ ticks < MaxTicks
  /\ now' = now + d
  /\ ticks' = ticks + 1
  /\ last' = Step("tick", NoSession)
  /\ UNCHANGED <<criteria, view, history, charts>>
  /\ UNCHANGED <<store, ws, streams, started, folded, lastPub, calls, nextId, micro>>

(* ---------------------------- ViewProjector --------------------------- *)
MaxDevices == 2

(* a field the payload does not have *)
Absent == -1

Filters == {"all", "ok", "not_ok", "testing"}
Sorts == {"status", "port", "updated"}

(* search texts as typed: with blanks around, in upper and lower case *)
Searches ==
  { <<>>, <<" ">>, <<"A">>, <<"p", "1", " ">>, <<" ", "b", " ", "P">> }

(* keys of the devices the projection is computed on *)
KeyNames == <<"A", "B", "C", "D">>
ProjKeys == {KeyNames[i] : i \in 1..MaxDevices}

(* payloads by the fields the projection reads; one of them has no uid *)
Shapes ==
  { [port |-> "p2",  ok |-> "null",  state |-> "testing", updated |-> 2, hasUid |-> TRUE],
    [port |-> "p1",  ok |-> "true",  state |-> "testing", updated |-> Absent, hasUid |-> TRUE],
    [port |-> "p10", ok |-> "false", state |-> "settled", updated |-> 1, hasUid |-> TRUE],
    [port |-> "p2",  ok |-> "true",  state |-> "settled", updated |-> 2, hasUid |-> TRUE],
    [port |-> "p1",  ok |-> "null",  state |-> "settled", updated |-> 1, hasUid |-> TRUE],
    [port |-> "p1",  ok |-> "true",  state |-> "settled", updated |-> 1, hasUid |-> FALSE] }

(* a record under key k: its uid is the key, unless the payload has none *)
ProjEntries ==
  {[key |-> k,
    data |-> [uid |-> IF sh.hasUid THEN k ELSE Undefined, port |-> sh.port,
              ok |-> sh.ok, state |-> sh.state, updated |-> sh.updated]] :
     k \in ProjKeys, sh \in Shapes}

(* the device maps of up to MaxDevices records, in every insertion order *)
DeviceMaps ==
  UNION {{m \in [1..n -> ProjEntries] :
            \A i, j \in 1..n : m[i].key = m[j].key => i = j} : n \in 0..MaxDevices}

(* a string as the sequence of its characters *)
Chars(str) ==
  CASE str = "" -> <<>>
    [] str = "A" -> <<"A">>
    [] str = "B" -> <<"B">>
    [] str = "C" -> <<"C">>
    [] str = "D" -> <<"D">>
    [] str = "p1" -> <<"p", "1">>
    [] str = "p2" -> <<"p", "2">>
    [] str = "p10" -> <<"p", "1", "0">>

(* String.prototype.toLowerCase *)
LowerChar(c) ==
  CASE c = "A" -> "a"
    [] c = "B" -> "b"
    [] c = "C" -> "c"
    [] c = "D" -> "d"
    [] c = "P" -> "p"
    [] OTHER -> c
toLowerCase(str) == [i \in 1..Len(str) |-> LowerChar(str[i])]

(* String.prototype.trim *)
RECURSIVE trim(_)
trim(str) ==
  IF str # <<>> /\ Head(str) = " " THEN trim(Tail(str))
  ELSE IF str # <<>> /\ str[Len(str)] = " " THEN trim(SubSeq(str, 1, Len(str) - 1))
  ELSE str

(* String.prototype.includes *)
includes(str, part) ==
  \E i \in 1..(Len(str) - Len(part) + 1) : SubSeq(str, i, i + Len(part) - 1) = part

(* search.trim().toLowerCase(), line 207 *)
normalizedSearch == toLowerCase(trim(search))

(* a label compared as it is, without case folding *)
label_NoFold(device) ==
  Chars(IF device.uid = Undefined THEN "" ELSE device.uid)
    \o <<" ">> \o Chars(device.port)

(* `${device.uid ?? ""} ${device.port}`.toLowerCase(), line 212 *)
label(device) ==
  toLowerCase(Chars(IF device.uid = Undefined THEN "" ELSE device.uid)
                \o <<" ">> \o Chars(device.port))

(* an `ok` filter that lets every record through that did not fail *)
filterDevice_OkLoose(device, f) ==
  CASE f = "all" -> TRUE
    [] f = "testing" -> device.state = "testing"
    [] f = "ok" -> device.ok # "false"
    [] f = "not_ok" -> device.ok = "false"
    [] OTHER -> TRUE

(* filterDevice, lines 218-224 *)
filterDevice(device, f) ==
  CASE f = "all" -> TRUE
    [] f = "testing" -> device.state = "testing"
    [] f = "ok" -> device.ok = "true"
    [] f = "not_ok" -> device.ok = "false"
    [] OTHER -> TRUE

(* the predicate of entries.filter, lines 208-214 *)
passes(device) ==
  IF normalizedSearch = <<>>
    THEN filterDevice(device, filter)
    ELSE includes(label(device), normalizedSearch) /\ filterDevice(device, filter)

(* String.prototype.localeCompare on strings of lower-case letters and    *)
(* digits: the first differing character decides, digits before letters,  *)
(* and a proper prefix comes first                                        *)
CharRank(c) ==
  CASE c = "0" -> 0
    [] c = "1" -> 1
    [] c = "2" -> 2
    [] c = "p" -> 3
RECURSIVE localeCompare(_, _)
localeCompare(a, b) ==
  IF a = <<>> /\ b = <<>> THEN 0
  ELSE IF a = <<>> THEN -1
  ELSE IF b = <<>> THEN 1
  ELSE IF CharRank(Head(a)) < CharRank(Head(b)) THEN -1
  ELSE IF CharRank(Head(a)) > CharRank(Head(b)) THEN 1
  ELSE localeCompare(Tail(a), Tail(b))

(* the severity of a record, lines 234-239 *)
order(device) ==
  IF device.state = "testing" THEN 0
  ELSE IF device.ok = "false" THEN 1
  ELSE IF device.ok = "true" THEN 2
  ELSE 3

(* device.updated ?? 0 *)
updatedOf(device) == IF device.updated = Absent THEN 0 ELSE device.updated

(* a comparison by time that puts the oldest record first *)
compareDevices_OldestFirst(a, b, srt) ==
  IF srt = "port" THEN localeCompare(Chars(a.port), Chars(b.port))
  ELSE IF srt = "updated" THEN updatedOf(a) - updatedOf(b)
  ELSE order(a) - order(b)

(* compareDevices, lines 226-241 *)
compareDevices(a, b, srt) ==
  IF srt = "port" THEN localeCompare(Chars(a.port), Chars(b.port))
  ELSE IF srt = "updated" THEN updatedOf(b) - updatedOf(a)
  ELSE order(a) - order(b)

(* a place in front of the records the new one compares equal to         *)
InsertPlace_BeforeEqual(sorted, x, srt) ==
  Cardinality({i \in 1..Len(sorted) :
                 compareDevices(sorted[i].data, x.data, srt) < 0})

(* where a stable sort puts a record among those already placed: behind   *)
(* every record that does not compare greater                             *)
InsertPlace(sorted, x, srt) ==
  Cardinality({i \in 1..Len(sorted) :
                 compareDevices(sorted[i].data, x.data, srt) <= 0})

(* Array.prototype.sort with compareDevices (line 215): a stable sort,    *)
(* computed by insertion                                                  *)
RECURSIVE ArraySort(_, _)
ArraySort(entries, srt) ==
  IF entries = <<>> THEN <<>>
  ELSE LET x == entries[Len(entries)]
           sorted == ArraySort(SubSeq(entries, 1, Len(entries) - 1), srt)
           n == InsertPlace(sorted, x, srt)
       IN SubSeq(sorted, 1, n) \o <<x>> \o SubSeq(sorted, n + 1, Len(sorted))

(* the records of useFilteredDevices with their keys: Object.values in    *)
(* insertion order, filtered, then sorted (lines 206-215)                 *)
Projected == ArraySort(SelectSeq(devices, LAMBDA e : passes(e.data)), sort)

(* useFilteredDevices(), lines 199-216 *)
useFilteredDevices == [i \in 1..Len(Projected) |-> Projected[i].data]

(* setFilter, setSearch and setSort, lines 161-163 *)
setFilter(f) ==
  /\ micro = "none"
  /\ filter' = f
  /\ last' = Step("setFilter", sessionId)
  /\ UNCHANGED <<store, ws, streams, started, folded, lastPub, calls, nextId,
                 now, ticks, micro, search, sort, view, history, charts>>

setSearch(text) ==
  /\ micro = "none"
  /\ search' = text
  /\ last' = Step("setSearch", sessionId)
  /\ UNCHANGED <<store, ws, streams, started, folded, lastPub, calls, nextId,
                 now, ticks, micro, filter, sort, view, history, charts>>

setSort(srt) ==
  /\ micro = "none"
  /\ sort' = srt
  /\ last' = Step("setSort", sessionId)
  /\ UNCHANGED <<store, ws, streams, started, folded, lastPub, calls, nextId,
                 now, ticks, micro, filter, search, view, history, charts>>

(* deriveStatus, DeviceCard.tsx lines 195-200: the badge of a card *)
deriveStatus(device) ==
  IF device.state = "testing" THEN "testing"
  ELSE IF device.ok = "false" THEN "fail"
  ELSE IF device.ok = "true" THEN "ok"
  ELSE "testing"

(* a rendering whose sort runs on the store's own records: the device    *)
(* set is left holding the filtered, sorted records                       *)
Dashboard_SortsStore ==
  /\ micro = "none"
  /\ view' = useFilteredDevices
  /\ devices' = Projected
  /\ last' = [Step("Dashboard", sessionId) EXCEPT !.again = (last.op = "Dashboard")]
  /\ UNCHANGED <<sessionId, loading, error, opts, fps, frames, lastFrameTs,
                 ws, streams, started, folded, lastPub, calls, nextId,
                 now, ticks, micro, criteria, history, charts>>

(* a rendering of the Dashboard: `const devices = useFilteredDevices()`,  *)
(* which reads the store and calls no setter (lines 199-216); `again`     *)
(* tells a rendering that follows a rendering                             *)
Dashboard ==
  /\ micro = "none"
  /\ view' = useFilteredDevices
  /\ last' = [Step("Dashboard", sessionId) EXCEPT !.again = (last.op = "Dashboard")]
  /\ UNCHANGED <<store, ws, streams, started, folded, lastPub, calls, nextId,
                 now, ticks, micro, criteria, history, charts>>

(* ------------------------------- charts ------------------------------- *)
(* the longest history array of a payload: one more than the largest cap  *)
MaxHistory == 181

(* the sample counts the components cut the history arrays to             *)
NormalCap == 40
ProCap == 60
PageSparkCap == 120
PageCap == 180

(* the history of a payload that carries n samples per series, oldest     *)
(* first, each series with values of its own                              *)
HistoryOf(n) ==
  [cycle_us |-> [k \in 1..n |-> 2 * k],
   loop_hz |-> [k \in 1..n |-> k],
   vbat |-> [k \in 1..n |-> k % 5],
   amps |-> [k \in 1..n |-> n - k]]

Histories == {HistoryOf(n) : n \in 0..MaxHistory}

(* a cut that keeps the oldest samples *)
slice_Oldest(arr, from) ==
  SubSeq(arr, 1, IF Len(arr) + from < 0 THEN Len(arr) ELSE 0 - from)

(* Array.prototype.slice(from) with a negative argument: a new array of   *)
(* the elements from index max(length + from, 0) on                       *)
slice(arr, from) ==
  LET k == IF Len(arr) + from < 0 THEN 0 ELSE Len(arr) + from
  IN SubSeq(arr, k + 1, Len(arr))

(* what a component reads and hands to its charts when it renders *)
Charted(name, data) ==
  /\ micro = "none"
  /\ charts' = data
  /\ last' = Step(name, sessionId)
  /\ UNCHANGED <<store, ws, streams, started, folded, lastPub, calls, nextId,
                 now, ticks, micro, criteria, view, history>>

(* NormalCard, DeviceCard.tsx line 105 *)
NormalCard ==
  Charted("NormalCard", <<slice(history.loop_hz, 0 - NormalCap)>>)

(* ProCard, DeviceCard.tsx lines 158-160 *)
ProCard ==
  Charted("ProCard", <<slice(history.cycle_us, 0 - ProCap),
                       slice(history.vbat, 0 - ProCap),
                       slice(history.amps, 0 - ProCap)>>)

(* DevicePage, lines 116-162 *)
DevicePage ==
  Charted("DevicePage", <<slice(history.loop_hz, 0 - PageSparkCap),
                          slice(history.cycle_us, 0 - PageCap),
                          slice(history.cycle_us, 0 - PageCap),
                          slice(history.vbat, 0 - PageCap),
                          slice(history.amps, 0 - PageCap)>>)

(* --------------------------- specifications -------------------------- *)
(* Session control: every control operation and its settlements, the      *)
(* option setters, snapshot events and stream closes, in any order.       *)
Next ==
  \/ start
  \/ \E c \in BagToSet(calls) : StartResolve(c)
  \/ \E c \in BagToSet(calls) : StartReject(c)
  \/ stop
  \/ \E c \in BagToSet(calls) : StopResolve(c)
  \/ \E c \in BagToSet(calls) : StopReject(c)
  \/ \E m \in Modes : setMode(m)
  \/ \E a \in CtlAuto : setAuto(a)
  \/ \E p \in CtlProfiles : setProfile(p)
  \/ \E b \in CtlSimulate : setSimulate(b)
  \/ \E b \in CtlSimulate : setIncludeSimulator(b)
  \/ SetterStart
  \/ \E s \in SessionIds, event \in CtlEvents : OnMessage(s, event)
  \/ \E s \in SessionIds : OnClose(s)

Spec == Init /\ [][Next]_vars

(* Sessions under a running clock: start and stop with snapshot events    *)
(* and clock advances, so that a rate gets published between them.        *)
NextClock ==
  \/ start
  \/ \E c \in BagToSet(calls) : StartResolve(c)
  \/ stop
  \/ \E c \in BagToSet(calls) : StopResolve(c)
  \/ \E s \in SessionIds, event \in CtlEvents : OnMessage(s, event)
  \/ \E s \in SessionIds : OnClose(s)
  \/ \E d \in TickSteps : Tick(d)

SpecClock == Init /\ [][NextClock]_vars

(* Control-API failures: every control call, retest included, may reject. *)
NextFail ==
  \/ start
  \/ \E c \in BagToSet(calls) : StartResolve(c)
  \/ \E c \in BagToSet(calls) : StartReject(c)
  \/ stop
  \/ \E c \in BagToSet(calls) : StopResolve(c)
  \/ \E c \in BagToSet(calls) : StopReject(c)
  \/ \E uid \in CtlKeys : retest(uid)
  \/ \E c \in BagToSet(calls), ok \in BOOLEAN : RetestSettle(c, ok)
  \/ \E s \in SessionIds : OnClose(s)

SpecFail == Init /\ [][NextFail]_vars

(* The stream of a session: every kind of event on two keys, well formed  *)
(* or with a field missing, messages that are not JSON and stream closes, *)
(* with sessions started around them.                                     *)
NextStream ==
  \/ start
  \/ \E c \in BagToSet(calls) : StartResolve(c)
  \/ \E s \in SessionIds, event \in Events \cup MalformedEvents : OnMessage(s, event)
  \/ \E s \in SessionIds : OnBadMessage(s)
  \/ \E s \in SessionIds : OnClose(s)

SpecStream == Init /\ [][NextStream]_vars

(* The throughput meter: every kind of event on one key under a running   *)
(* clock, with sessions started and stopped around them.                  *)
MeterEvents == EventsOn(CtlKeys, CtlData)

NextMeter ==
  \/ start
  \/ \E c \in BagToSet(calls) : StartResolve(c)
  \/ stop
  \/ \E c \in BagToSet(calls) : StopResolve(c)
  \/ \E s \in SessionIds, event \in MeterEvents : OnMessage(s, event)
  \/ \E d \in TickSteps : Tick(d)

SpecMeter == Init /\ [][NextMeter]_vars

(* The session-level error: control calls that may reject and a stream    *)
(* that reports probe failures, with stops, a setter and stream closes.   *)
ErrorEvents == {e \in MeterEvents : e.type \in {"snapshot", "probe_failed"}}

NextError ==
  \/ start
  \/ \E c \in BagToSet(calls) : StartResolve(c)
  \/ \E c \in BagToSet(calls) : StartReject(c)
  \/ stop
  \/ \E c \in BagToSet(calls) : StopResolve(c)
  \/ \E c \in BagToSet(calls) : StopReject(c)
  \/ \E m \in Modes : setMode(m)
  \/ SetterStart
  \/ \E s \in SessionIds, event \in ErrorEvents : OnMessage(s, event)
  \/ \E s \in SessionIds : OnClose(s)

SpecError == Init /\ [][NextError]_vars

(* Control-API failures when the API answers every startSession call: an  *)
(* outstanding startSession call is eventually resolved or rejected, and  *)
(* the continuation of the await in start() then runs.                    *)
StartSettled ==
  \E c \in BagToSet(calls) : StartResolve(c) \/ StartReject(c)

SpecLive == Init /\ [][NextFail]_vars /\ WF_vars(StartSettled)

(* The projection: a device set left by the stream, of up to MaxDevices   *)
(* records in any insertion order, viewed under every filter, search text *)
(* and sort key the user can select.                                      *)
InitProject ==
  /\ devices \in DeviceMaps
  /\ sessionId = NoSession
  /\ loading = FALSE
  /\ error = NoError
  /\ opts = InitOpts
  /\ fps = 0 /\ frames = 0 /\ lastFrameTs = 0
  /\ ws = NoSession
  /\ streams = [s \in SessionIds |-> "none"]
  /\ started = NoOpts
  /\ calls = EmptyBag
  /\ nextId = 0
  /\ now = T0
  /\ ticks = 0
  /\ micro = "none"
  /\ folded = {}
  /\ lastPub = [at |-> 0, before |-> 0]
  /\ filter = "all"
  /\ search = <<>>
  /\ sort = "status"
  /\ view = <<>>
  /\ history = NoHistory
  /\ charts = <<>>
  /\ last = Step("init", NoSession)

NextProject ==
  \/ \E f \in Filters : setFilter(f)
  \/ \E text \in Searches : setSearch(text)
  \/ \E srt \in Sorts : setSort(srt)

SpecProject == InitProject /\ [][NextProject]_vars

(* The Dashboard rendered between changes of the filter, the search text  *)
(* and the sort key.                                                      *)
RenderSearches == {<<>>, <<" ", "b", " ", "P">>}

NextRender ==
  \/ \E f \in Filters : setFilter(f)
  \/ \E text \in RenderSearches : setSearch(text)
  \/ \E srt \in Sorts : setSort(srt)
  \/ Dashboard

SpecRender == InitProject /\ [][NextRender]_vars

(* The charts: a device whose payload carries a history of any length up  *)
(* to MaxHistory, rendered as a card in either mode and as a device page. *)
InitHistory ==
  /\ history \in Histories
  /\ sessionId = NoSession
  /\ devices = <<>>
  /\ loading = FALSE
  /\ error = NoError
  /\ opts = InitOpts
  /\ fps = 0 /\ frames = 0 /\ lastFrameTs = 0
  /\ ws = NoSession
  /\ streams = [s \in SessionIds |-> "none"]
  /\ started = NoOpts
  /\ calls = EmptyBag
  /\ nextId = 0
  /\ now = T0
  /\ ticks = 0
  /\ micro = "none"
  /\ folded = {}
  /\ lastPub = [at |-> 0, before |-> 0]
  /\ filter = "all"
  /\ search = <<>>
  /\ sort = "status"
  /\ view = <<>>
  /\ charts = <<>>
  /\ last = Step("init", NoSession)

NextHistory ==
  \/ NormalCard
  \/ ProCard
  \/ DevicePage

SpecHistory == InitHistory /\ [][NextHistory]_vars

(* ------------------------------- claims ------------------------------- *)

(* C1: when the close event of an earlier session's stream is handled     *)
(* while a later session is current, the handler changes nothing:         *)
(* sessionId, the current stream, the connection handle, devices, error,  *)
(* the throughput counters and the outstanding calls stay as they were.   *)
C1_StaleCloseIgnored ==
  [][(last'.op = "onclose" /\ sessionId # NoSession /\ last'.sid # sessionId)
       => /\ UNCHANGED <<store, ws, calls>>
          /\ streams'[sessionId] = streams[sessionId]]_vars

(* a state right after S1's close was handled with S2 current and open *)
C1_Witness ==
  /\ last = Step("onclose", 1)
  /\ sessionId = 2
  /\ streams[2] = "open"
  /\ ws = 2

(* steps that are an invocation of start(), by the user or by a setter *)
StartInvoked == last'.op \in {"start", "startIgnored", "setterStart", "setterStartIgnored"}
StartPassed == last'.op \in {"start", "setterStart"}
StopInvoked == last'.op \in {"stop", "stopIgnored"}

(* C2: when the close event of the current session's stream is handled,   *)
(* the device set is empty afterwards.                                    *)
C2_CloseClearsDevices ==
  [][(last'.op = "onclose" /\ sessionId # NoSession /\ last'.sid = sessionId)
       => devices' = <<>>]_vars

(* C3: at most one startSession call is outstanding at any time, and a    *)
(* start() invoked while one is outstanding issues no call and changes no *)
(* state.                                                                 *)
C3_StartSingleFlight ==
  /\ [](Outstanding("start") <= 1)
  /\ [][(StartInvoked /\ Outstanding("start") >= 1)
          => UNCHANGED <<store, ws, streams, calls>>]_vars

(* a start() was just ignored while the earlier startSession call is      *)
(* still outstanding                                                      *)
C3_Witness ==
  /\ last.op = "startIgnored"
  /\ Outstanding("start") = 1
  /\ loading

(* C4: a start() invoked while a stopSession call is outstanding issues   *)
(* no startSession call and changes no state.                             *)
C4_StartDuringStopIgnored ==
  [][(StartInvoked /\ Outstanding("stop") >= 1)
       => UNCHANGED <<store, calls>>]_vars

(* C5: at most one call among startSession and stopSession is outstanding *)
(* at any time.                                                           *)
C5_OneControlCallOutstanding ==
  Outstanding("start") + Outstanding("stop") <= 1

(* C6: a start() that passes the guard empties devices, zeroes fps,       *)
(* frames and lastFrameTs, clears error, sets loading and issues one      *)
(* startSession call; when that call resolves with id s, sessionId is s,  *)
(* devices is empty, the connection held before is no longer open, the    *)
(* stream of s (and no other) is open and held, and loading is false.     *)
C6_StartResetsThenOpens ==
  [][/\ StartPassed =>
          /\ devices' = <<>>
          /\ fps' = 0 /\ frames' = 0 /\ lastFrameTs' = 0
          /\ error' = NoError
          /\ loading' = TRUE
          /\ Outstanding("start") = 0
          /\ Outstanding("start")' = 1
     /\ last'.op = "startResolved" =>
          LET s == last'.sid IN
            /\ sessionId' = s
            /\ devices' = <<>>
            /\ ws # NoSession => streams'[ws] # "open"
            /\ streams[s] = "none"
            /\ streams'[s] = "open"
            /\ ws' = s
            /\ \A t \in SessionIds \ {s} : streams'[t] # "open"
            /\ loading' = FALSE
            /\ Outstanding("start")' = 0]_vars

(* the second session was just opened over the first one's connection,    *)
(* after a rate had been published                                        *)
C6_Witness ==
  /\ last = Step("startResolved", 2)
  /\ streams[1] = "clientClosed"
  /\ streams[2] = "open"
  /\ ticks > 0

C8_RejectSetsError ==
  last.op \in {"startRejected", "stopRejected", "retestRejected"}
    => error # NoError

(* C9: a stop() invoked with an active session issues exactly one         *)
(* stopSession call, for the current id; when the call resolves, no       *)
(* stream is open, the handle and sessionId are null, devices is empty    *)
(* and fps, frames and lastFrameTs are 0.                                 *)
C9_StopClearsSession ==
  [][/\ (last'.op = "stop" /\ sessionId # NoSession) =>
          /\ Outstanding("stop")' = Outstanding("stop") + 1
          /\ \E c \in Pending("stop")' :
                /\ c.sid = sessionId
                /\ CopiesIn(c, calls') = CopiesIn(c, calls) + 1
     /\ last'.op = "stopResolved" =>
          /\ \E c \in Pending("stop") : c.sid = last'.sid
          /\ Outstanding("stop")' = Outstanding("stop") - 1
          /\ \A t \in SessionIds : streams'[t] # "open"
          /\ ws' = NoSession
          /\ sessionId' = NoSession
          /\ devices' = <<>>
          /\ fps' = 0 /\ frames' = 0 /\ lastFrameTs' = 0]_vars

(* the stop of session 1 just resolved and closed its stream *)
C9_Witness ==
  /\ last = Step("stopResolved", 1)
  /\ streams[1] = "clientClosed"
  /\ sessionId = NoSession
  /\ ticks > 0

(* C10: a stop() invoked while sessionId is null issues no call, closes   *)
(* no connection and leaves every store field unchanged.                  *)
C10_StopInactiveNoOp ==
  [][(StopInvoked /\ sessionId = NoSession)
       => UNCHANGED <<store, ws, streams, calls>>]_vars

(* a stop() was just ignored while a start is still pending *)
C10_Witness ==
  /\ last.op = "stopIgnored"
  /\ sessionId = NoSession
  /\ loading


(* steps that are an invocation of an option setter *)
SetterInvoked ==
  last'.op \in {"setMode", "setAuto", "setProfile", "setSimulate", "setIncludeSimulator"}

SnapshotApplied == last'.ev.type = "snapshot"
RemovedApplied == last'.ev.type = "removed"

(* the record under every key but k is the same before and after the step *)
OthersUnchanged(k) ==
  /\ KeysOf(devices') \ {k} = KeysOf(devices) \ {k}
  /\ \A j \in KeysOf(devices) \ {k} : Lookup(devices', j) = Lookup(devices, j)

(* C12: the device set never holds two records for one key; a snapshot    *)
(* event for key k leaves exactly the event's data under k, whatever was  *)
(* stored there, and a snapshot or removed event for another key leaves   *)
(* the record under k as it was. So after snapshots d1..dN for k,         *)
(* interleaved with events for other keys, the record under k is dN.      *)
C12_LastWriteWins ==
  /\ [](\A i, j \in 1..Len(devices) : devices[i].key = devices[j].key => i = j)
  /\ [][/\ SnapshotApplied
             => /\ HasKey(devices', last'.ev.uid)
                /\ Lookup(devices', last'.ev.uid) = last'.ev.data
        /\ (SnapshotApplied \/ RemovedApplied)
             => OthersUnchanged(last'.ev.uid)]_vars

(* A got a second snapshot after B's snapshot came in between: three      *)
(* snapshots were counted, A was inserted before B and was written last   *)
C12_Witness ==
  /\ last.ev.type = "snapshot" /\ last.ev.uid = "A"
  /\ last.ev.data.state = "settled"
  /\ frames = 3
  /\ Len(devices) = 2
  /\ devices[1] = [key |-> "A", data |-> last.ev.data]
  /\ devices[2].key = "B"
  /\ folded = {[key |-> "A", data |-> last.ev.data], devices[2]}

(* C13: while a session is active, the device set equals the events       *)
(* delivered on the session's stream so far, folded in delivery order     *)
(* over the empty map.                                                    *)
C13_DevicesAreFold ==
  sessionId # NoSession => AsMap(devices) = folded

(* C14: a removed event for key k leaves no record under k and the record *)
(* of every other key as it was; when k had no record the device set is   *)
(* the same afterwards; in both cases error, sessionId, the counters and  *)
(* the streams are unchanged.                                             *)
C14_RemoveExact ==
  [][RemovedApplied
       => /\ ~HasKey(devices', last'.ev.uid)
          /\ OthersUnchanged(last'.ev.uid)
          /\ Len(devices') = Len(devices) - (IF HasKey(devices, last'.ev.uid) THEN 1 ELSE 0)
          /\ ~HasKey(devices, last'.ev.uid) => devices' = devices
          /\ UNCHANGED <<error, sessionId, fps, frames, lastFrameTs, ws, streams>>]_vars

(* removed(A) was just handled in a set that keeps the record of B, two   *)
(* snapshots after the last reset                                         *)
C14_Witness ==
  /\ last.ev.type = "removed" /\ last.ev.uid = "A"
  /\ KeysOf(devices) = {"B"}
  /\ frames = 2
  /\ error = NoError

(* C15: a message that is not JSON, that lacks a field of its recognized  *)
(* type, or that carries an unrecognized type is dropped: devices, error, *)
(* sessionId and the throughput counters are unchanged and the stream     *)
(* stays open.                                                            *)
C15_MalformedDropped ==
  [][(\/ last'.op = "malformed"
      \/ last'.ev \in MalformedEvents
      \/ last'.ev.type = "other")
       => UNCHANGED <<devices, error, sessionId, fps, frames, lastFrameTs, streams>>]_vars

(* C16: a probe_failed event sets error to the reason the event carries   *)
(* and changes nothing else: devices, sessionId, the counters, loading,   *)
(* the options, the connection and the outstanding calls stay as they     *)
(* were.                                                                  *)
C16_ProbeFailedSetsError ==
  [][last'.ev.type = "probe_failed"
       => /\ error' = last'.ev.reason
          /\ UNCHANGED <<sessionId, devices, loading, opts, fps, frames,
                         lastFrameTs, ws, streams, calls>>]_vars

(* probe_failed was just handled in a session that holds a device and has *)
(* counted a frame; its stream is still open                              *)
C16_Witness ==
  /\ last.ev.type = "probe_failed"
  /\ error = "no_ports"
  /\ sessionId = last.sid
  /\ streams[last.sid] = "open"
  /\ devices # <<>>
  /\ frames > 0

(* C17: when a snapshot is handled at time now, with w the stored         *)
(* lastFrameTs, or now when that is 0, and n = frames + 1: if now - w is  *)
(* at least 1000, fps becomes the integer nearest to n * 1000 / (now - w) *)
(* (a half rounds up), frames becomes 0 and lastFrameTs becomes now;      *)
(* otherwise frames becomes n, fps is unchanged and lastFrameTs becomes w.*)
C17_WindowArithmetic ==
  [][SnapshotApplied
       => LET w == IF lastFrameTs = 0 THEN now ELSE lastFrameTs
              e == now - w
              n == frames + 1
          IN IF e >= 1000
               THEN /\ (2 * fps' - 1) * e <= 2 * n * 1000
                    /\ 2 * n * 1000 < (2 * fps' + 1) * e
                    /\ frames' = 0
                    /\ lastFrameTs' = now
               ELSE /\ frames' = n
                    /\ fps' = fps
                    /\ lastFrameTs' = w]_vars

(* a rate was just published 1400 ms after the session's first snapshot   *)
(* or 1000 ms after a later one: 1 is the rounded quotient in each case   *)
C17_Witness ==
  /\ last.ev.type = "snapshot"
  /\ now = T0 + 1400
  /\ fps = 1
  /\ frames = 0
  /\ lastFrameTs = now

(* steps that assign a computed rate to fps: the snapshot closed a window *)
Published == SnapshotApplied /\ frames' = 0

(* C18: an event that assigns a computed rate to fps comes at least 1000  *)
(* ms after the previous such event, whatever starts and stops happened   *)
(* in between, and a snapshot that does not close a window, a removed and *)
(* a probe_failed event leave fps as it was.                              *)
C18_PublishedOncePerWindow ==
  [][/\ Published => (lastPub.at = 0 \/ now - lastPub.at >= 1000)
     /\ (last'.ev.type \in {"snapshot", "removed", "probe_failed"} /\ ~Published)
          => fps' = fps]_vars

(* the second session just published a rate 1000 ms after the previous    *)
(* publication                                                            *)
C18_Witness ==
  /\ last.ev.type = "snapshot"
  /\ last.sid = 2
  /\ frames = 0
  /\ lastPub = [at |-> now, before |-> now - 1000]
  /\ fps > 0

(* C19: a removed and a probe_failed event leave frames, lastFrameTs and  *)
(* fps unchanged, and a snapshot that does not close a window adds        *)
(* exactly 1 to frames; so snapshot(A), snapshot(A), removed(A) in one    *)
(* window of a fresh session end with no devices and frames = 2.          *)
C19_OnlySnapshotsCount ==
  [][/\ last'.ev.type \in {"removed", "probe_failed"}
          => UNCHANGED <<frames, lastFrameTs, fps>>
     /\ (SnapshotApplied /\ ~Published) => frames' = frames + 1]_vars

(* the first session, no clock advance, no error: two snapshots of A were *)
(* counted and removed(A) was just handled                                *)
C19_Witness ==
  /\ last.ev = [type |-> "removed", uid |-> "A", data |-> NoData, reason |-> ""]
  /\ last.sid = 1 /\ sessionId = 1 /\ nextId = 1
  /\ now = T0
  /\ error = NoError
  /\ devices = <<>>
  /\ frames = 2
  /\ fps = 0
  /\ lastFrameTs = T0

(* C20: right after a snapshot event for key k was applied, the record    *)
(* under k has `updated` equal to the current time.                       *)
C20_UpdatedIsApplicationTime ==
  last.ev.type = "snapshot" => Lookup(devices, last.ev.uid).updated = now

(* C21: a snapshot event handled right after the same event (same key,    *)
(* same data, same stream) leaves the device set, order included, as the  *)
(* first left it, with the event's data under the key; and on every       *)
(* reachable device set an upsert applied twice gives what it gives       *)
(* applied once.                                                          *)
C21_UpsertIdempotent ==
  /\ [](\A k \in Keys, d \in Data :
          Put(Put(devices, k, d), k, d) = Put(devices, k, d))
  /\ [][(SnapshotApplied /\ last'.again)
          => /\ devices' = devices
             /\ Lookup(devices', last'.ev.uid) = last'.ev.data]_vars

(* snapshot(B) was just handled a second time in a row, with A's record   *)
(* stored before B's                                                      *)
C21_Witness ==
  /\ last.ev.type = "snapshot" /\ last.ev.uid = "B"
  /\ last.again
  /\ Len(devices) = 2
  /\ devices[1].key = "A"
  /\ devices[2] = [key |-> "B", data |-> last.ev.data]
  /\ frames = 3

(* C22: an invocation of retest and the settlement of its call, resolved  *)
(* or rejected, change no store field, handle or stream; with a session   *)
(* active the invocation issues exactly one retestDevice call, for the    *)
(* current sessionId and the given key, and with none it issues no call;  *)
(* no other step issues a retestDevice call.                              *)
C22_RetestNoLocalMutation ==
  [][/\ last'.op \in {"retest", "retestIgnored", "retestResolved", "retestRejected"}
          => UNCHANGED <<store, ws, streams>>
     /\ last'.op = "retest"
          => /\ sessionId # NoSession
             /\ \E uid \in Keys :
                  calls' = Issue(Call("retest", sessionId, NoOpts, "none", uid))
     /\ last'.op = "retestIgnored" => (sessionId = NoSession /\ calls' = calls)
     /\ Outstanding("retest")' > Outstanding("retest") => last'.op = "retest"]_vars

(* the retestDevice call of the active session was just rejected: the     *)
(* session is still active and no error is recorded                       *)
C22_Witness ==
  /\ last.op = "retestRejected"
  /\ sessionId = last.sid /\ sessionId # NoSession
  /\ streams[sessionId] = "open"
  /\ error = NoError
  /\ ~loading

(* a stream that was not open is open after the step *)
StreamOpened == \E s \in SessionIds : streams[s] # "open" /\ streams'[s] = "open"

(* C23: handling the close of the current session's stream sets sessionId *)
(* to null, opens no stream and issues no call; a stream is opened only   *)
(* by the resolution of a startSession call, which is also the only step  *)
(* that takes sessionId from null to an id; and while sessionId is null   *)
(* the only call that gets issued is the startSession call of an          *)
(* invocation of start().                                                 *)
C23_NoReconnect ==
  [][/\ (last'.op = "onclose" /\ sessionId # NoSession /\ last'.sid = sessionId)
          => /\ sessionId' = NoSession
             /\ streams'[sessionId] = "done"
             /\ ~StreamOpened
             /\ UNCHANGED <<calls, ws, loading>>
     /\ StreamOpened => last'.op = "startResolved"
     /\ (sessionId = NoSession /\ sessionId' # NoSession)
          => (last'.op = "startResolved" /\ sessionId' = last'.sid)
     /\ (sessionId = NoSession /\ calls' # calls /\ BagCardinality(calls') > BagCardinality(calls))
          => (StartPassed /\ Outstanding("start")' = Outstanding("start") + 1)]_vars

(* the close of the first session's stream was just handled while it was  *)
(* current: the session is inactive and nothing is in flight              *)
C23_Witness ==
  /\ last = Step("onclose", 1)
  /\ sessionId = NoSession
  /\ streams = [s \in SessionIds |-> IF s = 1 THEN "done" ELSE "none"]
  /\ calls = EmptyBag
  /\ ~loading

(* C24 as stated: once error is set it stays set through every operation  *)
(* and event until a start() succeeds: error goes from set to null only   *)
(* when a startSession call resolves.                                     *)
C24_ErrorUntilStartSucceeds ==
  [][(error # NoError /\ error' = NoError) => last'.op = "startResolved"]_vars

(* C24 amended: error is cleared by the invocation of a start() that      *)
(* passes the in-flight guard, before its call is issued, and by nothing  *)
(* else; besides that it changes only when a startSession call rejects    *)
(* (to that failure) and when a probe_failed event is handled (to its     *)
(* reason). Stop and its settlement, the other stream events, a stream    *)
(* close, the option setters and the resolution of a start leave it as it *)
(* is.                                                                    *)
C24_ErrorUntilStartInvoked ==
  [][/\ StartPassed => error' = NoError
     /\ (error # NoError /\ error' = NoError) => StartPassed
     /\ error' # error
          => \/ StartPassed
             \/ last'.op = "startRejected" /\ error' = StartError
             \/ last'.ev.type = "probe_failed" /\ error' = last'.ev.reason]_vars

(* the error of a probe failure is still there after the session it came  *)
(* from was stopped                                                       *)
C24_Witness ==
  /\ last.op = "stopResolved"
  /\ error = "no_ports"
  /\ sessionId = NoSession
  /\ devices = <<>>

(* the streams the client opened and has not closed, and that have not    *)
(* ended                                                                  *)
OpenStreams == {s \in SessionIds : streams[s] = "open"}

(* C25: at most one stream is open at any time, and an open stream is the *)
(* one the connection handle holds; a step that opens a stream opens      *)
(* exactly one, for the session id just assigned, and no stream was ever  *)
(* opened for that id before.                                             *)
C25_OneConnection ==
  /\ [](Cardinality(OpenStreams) <= 1 /\ \A s \in OpenStreams : ws = s)
  /\ [][StreamOpened
          => /\ OpenStreams' = {sessionId'}
             /\ streams[sessionId'] = "none"
             /\ sessionId' # sessionId]_vars

(* the second session was opened while the first was active: the first    *)
(* stream was closed by the client and only the second is open            *)
C25_Witness ==
  /\ last = Step("startResolved", 2)
  /\ sessionId = 2
  /\ ws = 2
  /\ streams[1] = "clientClosed"
  /\ OpenStreams = {2}
  /\ ~loading

(* C26: right after a startSession call resolved and the new session id   *)
(* was assigned, the device set is empty and fps, frames and lastFrameTs  *)
(* are 0.                                                                 *)
C26_NoCrossSessionContinuity ==
  last.op = "startResolved"
    => (devices = <<>> /\ fps = 0 /\ frames = 0 /\ lastFrameTs = 0)

(* C27: loading is true exactly while a startSession call is outstanding; *)
(* the step that settles the call, resolved or rejected, sets loading to  *)
(* false; and when the API answers every startSession call, loading being *)
(* true always leads to loading being false.                              *)
C27_LoadingReleased ==
  /\ [](loading <=> Outstanding("start") = 1)
  /\ [][Outstanding("start")' < Outstanding("start") => ~loading']_vars
  /\ (loading ~> ~loading)

(* a start() invoked during the first session was rejected: the guard is  *)
(* released and nothing is in flight                                      *)
C27_Witness ==
  /\ last = Step("startRejected", 1)
  /\ ~loading
  /\ calls = EmptyBag
  /\ error = StartError

(* the records in the projection, as a set *)
ProjectedSet == {Projected[i] : i \in 1..Len(Projected)}

(* C28: when the search text is empty or blank, the projection holds,     *)
(* once each, exactly the records that satisfy the filter - all: every    *)
(* record; testing: state is testing; ok: ok is true; not_ok: ok is       *)
(* false - so a record with unknown ok and a state other than testing is  *)
(* in it only under `all`.                                                *)
C28_FilterExact ==
  trim(search) = <<>> =>
    LET keep == {i \in 1..Len(devices) :
                   \/ filter = "all"
                   \/ filter = "testing" /\ devices[i].data.state = "testing"
                   \/ filter = "ok" /\ devices[i].data.ok = "true"
                   \/ filter = "not_ok" /\ devices[i].data.ok = "false"}
    IN /\ ProjectedSet = {devices[i] : i \in keep}
       /\ Len(Projected) = Cardinality(keep)
       /\ \A i \in 1..Len(devices) :
            (devices[i].data.ok = "null" /\ devices[i].data.state # "testing"
               /\ filter # "all")
              => devices[i] \notin ProjectedSet

(* the filter was just set to `ok` with no search text and the default    *)
(* sort: of a settled record with unknown ok and a record with ok true,   *)
(* the projection holds the second only                                   *)
C28_Witness ==
  /\ last.op = "setFilter"
  /\ filter = "ok" /\ search = <<>> /\ sort = "status"
  /\ Len(devices) = 2
  /\ devices[1].data.ok = "null" /\ devices[1].data.state = "settled"
  /\ devices[2].data.ok = "true"
  /\ useFilteredDevices = <<devices[2].data>>

(* C29 - as stated: when the trimmed, case-folded search text is not      *)
(* empty a record is in the projection exactly when the case-folded       *)
(* string `key + " " + port`, key being the key the record is stored      *)
(* under, contains the text and the record passes the filter; an empty    *)
(* text imposes no restriction.                                           *)
C29_SearchOnKey ==
  \A i \in 1..Len(devices) :
    devices[i] \in ProjectedSet <=>
      /\ filterDevice(devices[i].data, filter)
      /\ normalizedSearch # <<>> =>
           includes(toLowerCase(Chars(devices[i].key) \o <<" ">>
                                  \o Chars(devices[i].data.port)),
                    normalizedSearch)

(* C29 - amended: when the trimmed, case-folded search text is not empty  *)
(* a record is in the projection exactly when the case-folded string      *)
(* `uid + " " + port`, uid being the record's own uid field and the empty *)
(* string when the record has none, contains the text and the record      *)
(* passes the filter; an empty text imposes no restriction.               *)
C29_SearchOnUid ==
  \A i \in 1..Len(devices) :
    LET device == devices[i].data
        uid == IF device.uid = Undefined THEN <<>> ELSE Chars(device.uid)
    IN devices[i] \in ProjectedSet <=>
         /\ filterDevice(device, filter)
         /\ normalizedSearch # <<>> =>
              includes(toLowerCase(uid \o <<" ">> \o Chars(device.port)),
                       normalizedSearch)

(* the search text "A" was just typed under the filter `ok`: of a record  *)
(* stored under B and a record with uid A, both with ok true, the        *)
(* projection holds the second only                                       *)
C29_Witness ==
  /\ last.op = "setSearch"
  /\ search = <<"A">> /\ normalizedSearch = <<"a">>
  /\ filter = "ok"
  /\ Len(devices) = 2
  /\ devices[1].key = "B" /\ devices[1].data.ok = "true"
  /\ devices[2].key = "A" /\ devices[2].data.ok = "true"
  /\ Projected = <<devices[2]>>

(* C30 - the projection is ordered by the selected sort key - status:     *)
(* ascending rank with testing 0 whatever ok is, ok false 1, ok true 2,   *)
(* unknown 3; updated: descending timestamp, a missing one counting as 0; *)
(* port: ascending port string - and it is a permutation of exactly the   *)
(* records that passed filter and search.                                 *)
C30_Ordered ==
  LET rank(d) == IF d.state = "testing" THEN 0
                 ELSE IF d.ok = "false" THEN 1
                 ELSE IF d.ok = "true" THEN 2
                 ELSE 3
      stamp(d) == IF d.updated = Absent THEN 0 ELSE d.updated
      place(d) == CASE d.port = "p1" -> 1
                    [] d.port = "p10" -> 2
                    [] d.port = "p2" -> 3
      passed == {i \in 1..Len(devices) : passes(devices[i].data)}
  IN /\ \A i, j \in 1..Len(Projected) :
          i < j =>
            LET a == Projected[i].data
                b == Projected[j].data
            IN /\ sort = "status" => rank(a) <= rank(b)
               /\ sort = "updated" => stamp(a) >= stamp(b)
               /\ sort = "port" => place(a) <= place(b)
     /\ ProjectedSet = {devices[i] : i \in passed}
     /\ Len(Projected) = Cardinality(passed)

(* the sort key was just set to `updated`: a record without a timestamp   *)
(* that came first is shown behind a record stamped 2 that came second    *)
C30_Witness ==
  /\ last.op = "setSort"
  /\ sort = "updated"
  /\ Len(devices) = 2
  /\ Len(Projected) = 2
  /\ devices[1].data.updated = Absent /\ devices[2].data.updated = 2
  /\ Projected = <<devices[2], devices[1]>>

(* C31 - the sort is stable: two records of the projection whose sort     *)
(* keys are equal - the same status rank, the same timestamp or none, the *)
(* same port, according to the selected key - stand in the projection in  *)
(* the order they have in the device set.                                 *)
C31_SortStable ==
  LET shown == Projected
  IN \A i, j \in 1..Len(devices) : \A m, n \in 1..Len(shown) :
       LET a == devices[i].data
           b == devices[j].data
           sameKey == CASE sort = "status" -> order(a) = order(b)
                        [] sort = "updated" -> updatedOf(a) = updatedOf(b)
                        [] sort = "port" -> a.port = b.port
       IN (i < j /\ shown[m] = devices[i] /\ shown[n] = devices[j] /\ sameKey)
            => m < n

(* the sort key was just set to `port`: two records on the same port, the *)
(* first of a higher status rank, are shown in insertion order            *)
C31_Witness ==
  /\ last.op = "setSort"
  /\ sort = "port"
  /\ Len(devices) = 2
  /\ devices[1].data.port = devices[2].data.port
  /\ order(devices[1].data) > order(devices[2].data)
  /\ Projected = devices

(* C32 - the projection is pure: a rendering changes neither the device   *)
(* set nor any other field of the store nor the filter, search text and   *)
(* sort key, it returns the projection of the state it was invoked in,    *)
(* and a rendering that follows a rendering, so with the same devices,    *)
(* filter, search and sort, returns the same sequence.                    *)
C32_ProjectionPure ==
  [][last'.op = "Dashboard" =>
       /\ store' = store
       /\ criteria' = criteria
       /\ view' = [i \in 1..Len(Projected) |-> Projected[i].data]
       /\ last.op = "Dashboard" => view' = view]_vars

(* the Dashboard was rendered twice in a row over two records that the    *)
(* status sort shows in the reverse of their insertion order              *)
C32_Witness ==
  /\ last.op = "Dashboard" /\ last.again
  /\ sort = "status"
  /\ Len(devices) = 2
  /\ view = <<devices[2].data, devices[1].data>>

(* C33 - a stop() issued for one session affects that session only: when  *)
(* its stopSession response arrives while another session is current,     *)
(* completing the stop neither closes the current session's stream nor    *)
(* clears its sessionId, devices or throughput counters.                  *)
C33_StopAffectsOwnSession ==
  [][(last'.op = "stopResolved" /\ sessionId # NoSession
        /\ last'.sid # sessionId) =>
       /\ sessionId' = sessionId
       /\ streams'[sessionId] = streams[sessionId]
       /\ devices' = devices
       /\ <<fps', frames', lastFrameTs'>> = <<fps, frames, lastFrameTs>>]_vars

(* C34 - in every reachable state sessionId is non-null exactly when the  *)
(* module-level connection handle holds a stream that was opened for that *)
(* session id and has neither been closed by the client nor had its close *)
(* event handled.                                                         *)
C34_SessionIffLiveStream ==
  sessionId # NoSession <=>
    /\ ws # NoSession
    /\ ws = sessionId
    /\ streams[ws] = "open"

(* the close event of the current stream was just handled: no session is  *)
(* active and the handle still holds that stream                          *)
C34_Witness ==
  /\ last.op = "onclose"
  /\ sessionId = NoSession
  /\ ws = last.sid
  /\ streams[ws] = "done"

(* C35 - whenever a session is active and no start or stop is in flight,  *)
(* the option values the session was started with equal the option values *)
(* now in the store.                                                      *)
C35_SessionRunsCurrentOptions ==
  (/\ sessionId # NoSession
   /\ Pending("start") = {} /\ Pending("stop") = {}
   /\ micro = "none" /\ ~loading)
    => started = opts

(* C36 - every stream event that modifies devices, error or the           *)
(* throughput counters was delivered by the stream of the session whose   *)
(* id is sessionId at that moment, a stream the handle holds and the      *)
(* client has not closed: never by a closed or superseded stream, never   *)
(* while sessionId is null.                                               *)
C36_EventsOfCurrentSession ==
  [][(/\ last'.ev # NoEvent
      /\ <<devices', error', fps', frames', lastFrameTs'>>
           # <<devices, error, fps, frames, lastFrameTs>>)
       => /\ sessionId # NoSession
          /\ last'.sid = sessionId
          /\ ws = sessionId
          /\ streams[sessionId] = "open"]_vars

(* an event of session 2 was just applied while the stream of session 1,  *)
(* closed by the client when session 2 started, has not yet reported its  *)
(* close                                                                  *)
C36_Witness ==
  /\ last.ev # NoEvent
  /\ last.sid = 2 /\ sessionId = 2
  /\ streams[1] = "clientClosed"
  /\ (devices # <<>> \/ error # NoError)

(* C37 - stop() does not cancel a pending start: invoked while a start is *)
(* in flight and sessionId is null it issues no call and changes nothing, *)
(* the startSession call stays outstanding, and when that call resolves   *)
(* the session becomes active: sessionId is set and its stream is open.   *)
C37_StopKeepsPendingStart ==
  [][/\ (StopInvoked /\ sessionId = NoSession /\ Pending("start") # {})
          => /\ UNCHANGED <<store, ws, streams, calls, micro>>
             /\ loading'
     /\ (last'.op = "startResolved" /\ last.op = "stopIgnored")
          => /\ sessionId' = last'.sid
             /\ sessionId' # NoSession
             /\ ws' = sessionId'
             /\ streams'[sessionId'] = "open"
             /\ ~loading']_vars

(* a second session is being started after the first one ended: a stop()  *)
(* was just ignored and the startSession call is still outstanding        *)
C37_Witness ==
  /\ last.op = "stopIgnored"
  /\ nextId = 1
  /\ streams[1] = "done"
  /\ Pending("start") # {}
  /\ loading

(* C38 - no session is orphaned by client action: a session id returned   *)
(* by the start API is never dropped locally - overwritten by a later     *)
(* start or cleared by a stop - unless a stopSession call has been issued *)
(* for that id. Where no stopSession call fails, a call issued for the    *)
(* current id is still outstanding: its response clears sessionId.        *)
C38_NoOrphanedSession ==
  [][(/\ sessionId # NoSession
      /\ sessionId' # sessionId
      /\ last'.op \in {"startResolved", "stopResolved"})
       => \E c \in Pending("stop") : c.sid = sessionId]_vars

(* C39 - status classification is consistent across views: every device  *)
(* shown whose card is badged Testing passes the `testing` filter and has *)
(* rank 0 in the status sort, and a device whose state is testing is      *)
(* badged Testing whatever its ok is.                                     *)
C39_BadgeMatchesFilterAndRank ==
  \A i \in 1..Len(view) :
    /\ deriveStatus(view[i]) = "testing"
         => filterDevice(view[i], "testing") /\ order(view[i]) = 0
    /\ view[i].state = "testing" => deriveStatus(view[i]) = "testing"

(* the most recent samples of an array, at most cap of them, oldest first *)
Recent(arr, cap) ==
  LET m == IF Len(arr) < cap THEN Len(arr) ELSE cap
  IN [k \in 1..m |-> arr[Len(arr) - m + k]]

(* C40 - history arrays are trimmed before render: every array handed to  *)
(* a chart is the suffix of the most recent samples of the payload array, *)
(* in the original order, of length at most the chart's cap - 40 on the   *)
(* normal card, 60 on the pro card, 120 and 180 on the device page - and  *)
(* the array stored in the device record is not modified.                 *)
C40_HistoryTrimmed ==
  [][/\ last'.op \in {"NormalCard", "ProCard", "DevicePage"}
          => /\ history' = history
             /\ devices' = devices
     /\ last'.op = "NormalCard"
          => /\ charts' = <<Recent(history.loop_hz, 40)>>
             /\ Len(charts'[1]) <= 40
     /\ last'.op = "ProCard"
          => /\ charts' = <<Recent(history.cycle_us, 60), Recent(history.vbat, 60),
                            Recent(history.amps, 60)>>
             /\ \A i \in 1..3 : Len(charts'[i]) <= 60
     /\ last'.op = "DevicePage"
          => /\ charts' = <<Recent(history.loop_hz, 120),
                            Recent(history.cycle_us, 180),
                            Recent(history.cycle_us, 180),
                            Recent(history.vbat, 180), Recent(history.amps, 180)>>
             /\ Len(charts'[1]) <= 120
             /\ \A i \in 2..5 : Len(charts'[i]) <= 180]_vars

(* the device page was just rendered for a payload of 181 samples: the    *)
(* time series of the cycle time holds the last 180, the oldest dropped,  *)
(* and the payload still holds 181                                        *)
C40_Witness ==
  /\ last.op = "DevicePage"
  /\ Len(history.cycle_us) = 181
  /\ Len(charts[2]) = 180
  /\ charts[2][1] = history.cycle_us[2]
  /\ charts[2][180] = history.cycle_us[181]
  /\ Len(charts[1]) = 120

====
